---------------------------- MODULE Spec2Model ----------------------------
(***************************************************************************)
(* A model of vocode/streaming/utils/call_tracker.py: the CallTracker      *)
(* registry of call sessions, its five operations, and a caller's write    *)
(* to a dict that a query handed out.                                      *)
(*                                                                         *)
(* Time is counted in clock ticks: time.time() reads the variable `now`,   *)
(* which the Tick action advances and never moves back.  Every handler     *)
(* reads the clock once and runs to completion (the methods are            *)
(* synchronous and hold no await), so each handler is one action.          *)
(*                                                                         *)
(* Python's None is the empty tuple; a value of an optional field is a     *)
(* one-element tuple, so that None and 0 stay different values, as they    *)
(* are in Python, while both are falsy (see Truthy).                       *)
(***************************************************************************)
EXTENDS Integers, FiniteSets, Sequences, TLC

\* The model's bound: the clock stops advancing at MaxTime.
MaxTime == 3

\* The conversation ids the callers pass.
Ids == {"c1", "c2"}
\* The (to_phone, from_phone) pairs the callers dial.
Dialed == {<<"+1555", "+1777">>, <<"+1777", "+1555">>}

None == <<>>
Some(v) == <<v>>
Val(o) == o[1]

\* Python truthiness of an Optional[float]: None and 0.0 are both falsy.
Truthy(o) == o # None /\ Val(o) # 0

VARIABLES
    call_sessions,  \* self._call_sessions: a dict, conversation id -> session dict
    now,            \* the clock time.time() and datetime.now() read
    ret,            \* what the last operation returned
    log,            \* the line the last operation logged (NoLog when it logged none)
    call,           \* the last operation (a method call, or a caller's write to a
                    \* view it was handed), and what it found on entry
    begun,          \* ids begun (start_call_tracking) and not ended since
    started_at,     \* per id, the clock at its last start_call_tracking; None once ended
    dialed,         \* per id, <<to_phone, from_phone>> of its last start_call_tracking;
                    \* None once ended
    marked,         \* ids with a mark_agent_started call since their last start/end
    last_poll,      \* per id, current_duration of its last successful poll; None once ended
    restarted       \* ids re-begun (start_call_tracking) since their last successful poll

vars == <<call_sessions, now, ret, log, call, begun, started_at, dialed, marked,
          last_poll, restarted>>

-----------------------------------------------------------------------------
(* Return values and log lines *)

RetNone == [kind |-> "None"]
RetValue(v) == [kind |-> "value", value |-> v]

NoLog == [level |-> "none"]

\* d[k] = v on a dict
DictSet(d, k, v) == [x \in (DOMAIN d) \cup {k} |-> IF x = k THEN v ELSE d[x]]
\* d.pop(k): the dict that is left
DictPop(d, k) == [x \in (DOMAIN d) \ {k} |-> d[x]]

-----------------------------------------------------------------------------
(* start_call_tracking *)

\* NewSession with agent_start_time initialised to the start time.
NewSession_AgentTimeSet(t, to_phone, from_phone) ==
    [start_time       |-> t,
     start_datetime   |-> t,
     to_phone         |-> to_phone,
     from_phone       |-> from_phone,
     agent_started    |-> FALSE,
     agent_start_time |-> Some(t),
     end_time         |-> None,
     end_datetime     |-> None,
     duration         |-> None]

\* NewSession with the two phone numbers stored in each other's field.
NewSession_PhonesSwapped(t, to_phone, from_phone) ==
    [start_time       |-> t,
     start_datetime   |-> t,
     to_phone         |-> from_phone,
     from_phone       |-> to_phone,
     agent_started    |-> FALSE,
     agent_start_time |-> None,
     end_time         |-> None,
     end_datetime     |-> None,
     duration         |-> None]

\* The dict literal of start_call_tracking.
NewSession(t, to_phone, from_phone) ==
    [start_time       |-> t,
     start_datetime   |-> t,
     to_phone         |-> to_phone,
     from_phone       |-> from_phone,
     agent_started    |-> FALSE,
     agent_start_time |-> None,
     end_time         |-> None,
     end_datetime     |-> None,
     duration         |-> None]

\* StartCallTracking updating a session that exists instead of replacing it:
\* the agent fields of the previous session survive.
StartCallTracking_Update(sessions, id, to_phone, from_phone, t) ==
    IF id \in DOMAIN sessions
    THEN DictSet(sessions, id,
                 [sessions[id] EXCEPT !.start_time = t,
                                      !.start_datetime = t,
                                      !.to_phone = to_phone,
                                      !.from_phone = from_phone])
    ELSE DictSet(sessions, id, NewSession(t, to_phone, from_phone))

\* The registry after start_call_tracking(id, to_phone, from_phone) at clock t.
StartCallTracking(sessions, id, to_phone, from_phone, t) ==
    DictSet(sessions, id, NewSession(t, to_phone, from_phone))

StartLog(id, to_phone, from_phone, t) ==
    [level |-> "info", event |-> "CALL STARTED", id |-> id,
     from_phone |-> from_phone, to_phone |-> to_phone, start |-> t]

-----------------------------------------------------------------------------
(* mark_agent_started *)

\* MarkAgentStarted recording the time without setting the agent_started flag.
MarkAgentStarted_NoFlag(sessions, id, t) ==
    IF id \in DOMAIN sessions
    THEN DictSet(sessions, id, [sessions[id] EXCEPT !.agent_start_time = Some(t)])
    ELSE sessions

\* MarkAgentStarted writing the time under the key 'end_time'.
MarkAgentStarted_WrongKey(sessions, id, t) ==
    IF id \in DOMAIN sessions
    THEN DictSet(sessions, id,
                 [sessions[id] EXCEPT !.agent_started = TRUE,
                                      !.end_time = Some(t)])
    ELSE sessions

\* MarkAgentStarted writing the time under 'start_time' as well.
MarkAgentStarted_ResetsStart(sessions, id, t) ==
    IF id \in DOMAIN sessions
    THEN DictSet(sessions, id,
                 [sessions[id] EXCEPT !.agent_started = TRUE,
                                      !.agent_start_time = Some(t),
                                      !.start_time = t])
    ELSE sessions

\* MarkAgentStarted without the membership test, creating the session it misses.
MarkAgentStarted_Create(sessions, id, t) ==
    LET session == IF id \in DOMAIN sessions
                   THEN sessions[id]
                   ELSE NewSession(t, "", "")
    IN  DictSet(sessions, id,
                [session EXCEPT !.agent_started = TRUE,
                                !.agent_start_time = Some(t)])

\* The registry after mark_agent_started(id) at clock t.
MarkAgentStarted(sessions, id, t) ==
    IF id \notin DOMAIN sessions
    THEN sessions
    ELSE DictSet(sessions, id,
                 [sessions[id] EXCEPT !.agent_started = TRUE,
                                      !.agent_start_time = Some(t)])

MarkLog(sessions, id, t) ==
    IF id \notin DOMAIN sessions
    THEN [level |-> "warning", event |-> "not found for agent start tracking", id |-> id]
    ELSE [level |-> "info", event |-> "AGENT STARTED", id |-> id,
          agent_start |-> t,
          call_setup_duration |-> t - sessions[id].start_time]

-----------------------------------------------------------------------------
(* end_call_tracking *)

\* EndedSession with the operands of the duration swapped.
EndedSession_Swapped(session, t) ==
    [session EXCEPT !.end_time = Some(t),
                    !.end_datetime = Some(t),
                    !.duration = Some(session.start_time - t)]

\* The session dict after end_call_tracking has written its end fields.
EndedSession(session, t) ==
    [session EXCEPT !.end_time = Some(t),
                    !.end_datetime = Some(t),
                    !.duration = Some(t - session.start_time)]

\* The local agent_duration of end_call_tracking, from the ended session.
AgentDuration(session) ==
    IF session.agent_started /\ Truthy(session.agent_start_time)
    THEN Some(Val(session.end_time) - Val(session.agent_start_time))
    ELSE None

\* The summary line: its tail is the agent duration or the marker.
EndLog(sessions, id, t) ==
    IF id \notin DOMAIN sessions
    THEN [level |-> "warning", event |-> "not found for end tracking", id |-> id]
    ELSE LET session == EndedSession(sessions[id], t)
             agent_duration == AgentDuration(session)
         IN  [level |-> "info", event |-> "CALL ENDED", id |-> id,
              from_phone |-> session.from_phone, to_phone |-> session.to_phone,
              start |-> session.start_datetime, end |-> t,
              total_duration |-> Val(session.duration),
              tail |-> IF Truthy(agent_duration)
                       THEN [text |-> "AGENT DURATION",
                             seconds |-> Val(agent_duration)]
                       ELSE [text |-> "AGENT NEVER STARTED"]]

\* What end_call_tracking(id) returns at clock t.
EndReturn(sessions, id, t) ==
    IF id \notin DOMAIN sessions
    THEN RetNone
    ELSE RetValue(EndedSession(sessions[id], t))

\* EndCallTracking leaving the session in the registry.
EndCallTracking_NoPop(sessions, id) == sessions

\* EndCallTracking emptying the registry instead of popping one id.
EndCallTracking_Clear(sessions, id) ==
    IF id \notin DOMAIN sessions
    THEN sessions
    ELSE <<>>

\* The registry after end_call_tracking(id).
EndCallTracking(sessions, id) ==
    IF id \notin DOMAIN sessions
    THEN sessions
    ELSE DictPop(sessions, id)

-----------------------------------------------------------------------------
(* get_call_status, get_active_calls *)

\* A dict handed to a caller is a copy unless it carries this mark: then it
\* is the very dict object the registry holds, and a write to it is a write
\* to the registry's session.  copy() gives a dict without the mark.
IsRegistryObject(view) == "registry_object" \in DOMAIN view

\* WithCurrentDuration without the copy(): the registry's own dict is handed out.
WithCurrentDuration_NoCopy(session, t) ==
    [current_duration |-> t - session.start_time, registry_object |-> TRUE] @@ session

\* WithCurrentDuration with the operands of the subtraction swapped.
WithCurrentDuration_Swapped(session, t) ==
    [current_duration |-> session.start_time - t] @@ session

\* session.copy() with current_duration added.
WithCurrentDuration(session, t) ==
    [current_duration |-> t - session.start_time] @@ session

\* GetCallStatus counting current_duration from the agent's start once it is set.
GetCallStatus_SinceAgent(sessions, id, t) ==
    IF id \notin DOMAIN sessions
    THEN RetNone
    ELSE IF sessions[id].agent_start_time # None
         THEN RetValue([current_duration |-> t - Val(sessions[id].agent_start_time)]
                       @@ sessions[id])
         ELSE RetValue(WithCurrentDuration(sessions[id], t))

\* What get_call_status(id) returns at clock t.
GetCallStatus(sessions, id, t) ==
    IF id \notin DOMAIN sessions
    THEN RetNone
    ELSE IF sessions[id].end_time = None
         THEN RetValue(WithCurrentDuration(sessions[id], t))
         ELSE RetValue(sessions[id])

\* The registry after get_call_status(id): the method writes to its copy only.
StatusSessions(sessions, id, t) == sessions

\* GetActiveCalls with the end_time test inverted.
GetActiveCalls_Inverted(sessions, t) ==
    LET active == {id \in DOMAIN sessions : sessions[id].end_time # None}
    IN  [id \in active |-> WithCurrentDuration(sessions[id], t)]

\* The dict get_active_calls() returns at clock t.
GetActiveCalls(sessions, t) ==
    LET active == {id \in DOMAIN sessions : sessions[id].end_time = None}
    IN  [id \in active |-> WithCurrentDuration(sessions[id], t)]

\* The registry after get_active_calls(): the method writes to its copies only.
ActiveSessions(sessions, t) == sessions

\* What a caller writes into a field of a view it was handed.
Redacted == "redacted"

\* The registry after a caller has written to_phone of the view of id it was
\* handed: unchanged, unless the view is the registry's own dict.
ViewWritten(sessions, id, view) ==
    IF IsRegistryObject(view) /\ id \in DOMAIN sessions
    THEN DictSet(sessions, id, [sessions[id] EXCEPT !.to_phone = Redacted])
    ELSE sessions

-----------------------------------------------------------------------------
(* The operations *)

\* What an operation on id finds on entry; `again` tells, of an
\* end_call_tracking, that the operation before it was an end_call_tracking
\* of the same id that had found the session.
Entry(op, id) ==
    [op        |-> op,
     id        |-> id,
     again     |-> /\ op = "end_call_tracking"
                   /\ call.op = op /\ call.id = id /\ call.found,
     found     |-> id \in DOMAIN call_sessions,
     agent     |-> id \in DOMAIN call_sessions /\ call_sessions[id].agent_started,
     marked    |-> id \in marked,
     prev_poll |-> IF op = "get_call_status" THEN last_poll[id] ELSE None,
     restarted |-> op = "get_call_status" /\ id \in restarted]

\* The last operation called is op, on id.
Called(op, id) == call.op = op /\ call.id = id

Init ==
    /\ call_sessions = <<>>
    /\ now = 1
    /\ ret = RetNone
    /\ log = NoLog
    /\ call = [op |-> "__init__", id |-> "", again |-> FALSE, found |-> FALSE,
               agent |-> FALSE, marked |-> FALSE, prev_poll |-> None, restarted |-> FALSE]
    /\ begun = {}
    /\ started_at = [id \in Ids |-> None]
    /\ dialed = [id \in Ids |-> None]
    /\ marked = {}
    /\ last_poll = [id \in Ids |-> None]
    /\ restarted = {}

\* Time passes between two operations.
Tick ==
    /\ now < MaxTime
    /\ now' = now + 1
    /\ UNCHANGED <<call_sessions, ret, log, call, begun, started_at, dialed, marked,
                   last_poll, restarted>>

start_call_tracking(id, to_phone, from_phone) ==
    /\ call_sessions' = StartCallTracking(call_sessions, id, to_phone, from_phone, now)
    /\ log' = StartLog(id, to_phone, from_phone, now)
    /\ ret' = RetNone
    /\ call' = Entry("start_call_tracking", id)
    /\ begun' = begun \cup {id}
    /\ started_at' = [started_at EXCEPT ![id] = Some(now)]
    /\ dialed' = [dialed EXCEPT ![id] = <<to_phone, from_phone>>]
    /\ marked' = marked \ {id}
    /\ restarted' = IF last_poll[id] # None THEN restarted \cup {id} ELSE restarted
    /\ UNCHANGED <<now, last_poll>>

mark_agent_started(id) ==
    /\ call_sessions' = MarkAgentStarted(call_sessions, id, now)
    /\ log' = MarkLog(call_sessions, id, now)
    /\ ret' = RetNone
    /\ call' = Entry("mark_agent_started", id)
    /\ marked' = marked \cup {id}
    /\ UNCHANGED <<now, begun, started_at, dialed, last_poll, restarted>>

end_call_tracking(id) ==
    /\ call_sessions' = EndCallTracking(call_sessions, id)
    /\ log' = EndLog(call_sessions, id, now)
    /\ ret' = EndReturn(call_sessions, id, now)
    /\ call' = Entry("end_call_tracking", id)
    /\ begun' = begun \ {id}
    /\ started_at' = [started_at EXCEPT ![id] = None]
    /\ dialed' = [dialed EXCEPT ![id] = None]
    /\ marked' = marked \ {id}
    /\ last_poll' = [last_poll EXCEPT ![id] = None]
    /\ restarted' = restarted \ {id}
    /\ UNCHANGED now

get_call_status(id) ==
    /\ ret' = GetCallStatus(call_sessions, id, now)
    /\ call' = Entry("get_call_status", id)
    /\ last_poll' = IF ret'.kind = "value" /\ "current_duration" \in DOMAIN ret'.value
                    THEN [last_poll EXCEPT ![id] = Some(ret'.value.current_duration)]
                    ELSE last_poll
    /\ restarted' = IF ret'.kind = "value" THEN restarted \ {id} ELSE restarted
    /\ log' = NoLog
    /\ call_sessions' = StatusSessions(call_sessions, id, now)
    /\ UNCHANGED <<now, begun, started_at, dialed, marked>>

get_active_calls ==
    /\ ret' = RetValue(GetActiveCalls(call_sessions, now))
    /\ call' = [op |-> "get_active_calls", id |-> "", again |-> FALSE, found |-> FALSE,
                agent |-> FALSE, marked |-> FALSE, prev_poll |-> None, restarted |-> FALSE]
    /\ log' = NoLog
    /\ call_sessions' = ActiveSessions(call_sessions, now)
    /\ UNCHANGED <<now, begun, started_at, dialed, marked, last_poll, restarted>>

\* The caller of get_call_status(id) writes to_phone of the view it was handed.
write_status_view(id) ==
    /\ Called("get_call_status", id)
    /\ ret.kind = "value"
    /\ call_sessions' = ViewWritten(call_sessions, id, ret.value)
    /\ ret' = RetNone
    /\ log' = NoLog
    /\ call' = Entry("write_view", id)
    /\ UNCHANGED <<now, begun, started_at, dialed, marked, last_poll, restarted>>

\* The caller of get_active_calls() writes to_phone of the view of id in the
\* dict it was handed.
write_active_view(id) ==
    /\ call.op = "get_active_calls"
    /\ ret.kind = "value"
    /\ id \in DOMAIN ret.value
    /\ call_sessions' = ViewWritten(call_sessions, id, ret.value[id])
    /\ ret' = RetNone
    /\ log' = NoLog
    /\ call' = Entry("write_view", id)
    /\ UNCHANGED <<now, begun, started_at, dialed, marked, last_poll, restarted>>

Next ==
    \/ Tick
    \/ \E id \in Ids, d \in Dialed : start_call_tracking(id, d[1], d[2])
    \/ \E id \in Ids : mark_agent_started(id)
    \/ \E id \in Ids : end_call_tracking(id)
    \/ \E id \in Ids : get_call_status(id)
    \/ get_active_calls
    \/ \E id \in Ids : write_status_view(id)
    \/ \E id \in Ids : write_active_view(id)

Spec == Init /\ [][Next]_vars

-----------------------------------------------------------------------------
(* get_active_calls lists exactly the begun, not yet ended ids *)

\* C1: in every state, the key set of the dict get_active_calls() returns is
\* exactly the set of ids for which start_call_tracking has been called and
\* end_call_tracking has not been called since.
C1_ActiveCallsAreBegun ==
    DOMAIN GetActiveCalls(call_sessions, now) = begun

\* One of two begun calls has been ended and the other has not.
C1_Witness ==
    /\ call.op = "end_call_tracking"
    /\ call.found
    /\ begun = Ids \ {call.id}
    /\ DOMAIN GetActiveCalls(call_sessions, now) = Ids \ {call.id}

-----------------------------------------------------------------------------
(* The record end_call_tracking returns *)

\* C2: end_call_tracking(id) after start_call_tracking(id) returns a record
\* whose end_time is the clock at the end, whose duration is its end_time
\* minus the start_time that start_call_tracking captured, and id is no key
\* of get_active_calls() afterwards.
C2_DurationAndRemoval ==
    [][\A id \in Ids :
          (/\ Called("end_call_tracking", id)'
           /\ end_call_tracking(id)
           /\ started_at[id] # None) =>
              /\ ret'.kind = "value"
              /\ ret'.value.end_time = Some(now)
              /\ ret'.value.start_time = Val(started_at[id])
              /\ ret'.value.duration =
                     Some(Val(ret'.value.end_time) - Val(started_at[id]))
              /\ id \notin DOMAIN GetActiveCalls(call_sessions', now')]_vars

\* A call ended two ticks after its start, the agent marked in between and
\* the other call still live.
C2_Witness ==
    /\ call.op = "end_call_tracking"
    /\ call.found
    /\ call.agent
    /\ ret.kind = "value"
    /\ ret.value.duration = Some(2)
    /\ call.id \notin DOMAIN GetActiveCalls(call_sessions, now)
    /\ DOMAIN call_sessions = Ids \ {call.id}

\* C3 as stated: after start, mark_agent_started and end, the returned record
\* has agent_started true and carries an agent_duration equal to its end_time
\* minus its agent_start_time.
C3_RecordHasAgentDuration ==
    [][\A id \in Ids :
          (/\ Called("end_call_tracking", id)'
           /\ end_call_tracking(id)
           /\ id \in begun
           /\ id \in marked) =>
              /\ ret'.kind = "value"
              /\ ret'.value.agent_started = TRUE
              /\ "agent_duration" \in DOMAIN ret'.value
              /\ ret'.value.agent_duration =
                     Val(ret'.value.end_time) - Val(ret'.value.agent_start_time)]_vars

\* C3, amended: after start, mark_agent_started and end, the returned record
\* has agent_started true and agent_start_time set, no later than its
\* end_time; the record has no agent_duration field, and the agent_duration
\* that end_call_tracking computes from it is end_time minus agent_start_time.
C3_AgentDurationComputed ==
    [][\A id \in Ids :
          (/\ Called("end_call_tracking", id)'
           /\ end_call_tracking(id)
           /\ id \in begun
           /\ id \in marked) =>
              /\ ret'.kind = "value"
              /\ ret'.value.agent_started = TRUE
              /\ ret'.value.agent_start_time # None
              /\ Val(ret'.value.agent_start_time) <= Val(ret'.value.end_time)
              /\ "agent_duration" \notin DOMAIN ret'.value
              /\ AgentDuration(ret'.value) =
                     Some(Val(ret'.value.end_time) - Val(ret'.value.agent_start_time))]_vars

\* A call ended one tick after its agent started, two ticks after its start.
C3_Witness ==
    /\ call.op = "end_call_tracking"
    /\ call.found
    /\ call.marked
    /\ ret.kind = "value"
    /\ ret.value.agent_started
    /\ ret.value.start_time = 1
    /\ ret.value.agent_start_time = Some(2)
    /\ ret.value.end_time = Some(3)
    /\ AgentDuration(ret.value) = Some(1)

\* C4: end_call_tracking(id) after start_call_tracking(id) with no
\* mark_agent_started(id) in between returns a record with agent_started
\* false and agent_start_time unset, and there is no agent duration: none in
\* the record and none computed.
C4_NoAgentNoDuration ==
    [][\A id \in Ids :
          (/\ Called("end_call_tracking", id)'
           /\ end_call_tracking(id)
           /\ id \in begun
           /\ id \notin marked) =>
              /\ ret'.kind = "value"
              /\ ret'.value.agent_started = FALSE
              /\ ret'.value.agent_start_time = None
              /\ "agent_duration" \notin DOMAIN ret'.value
              /\ AgentDuration(ret'.value) = None]_vars

\* A call ended a tick after its start, never marked, while the other call's
\* agent has started.
C4_Witness ==
    /\ call.op = "end_call_tracking"
    /\ call.found
    /\ ~call.marked
    /\ ret.kind = "value"
    /\ ret.value.agent_started = FALSE
    /\ ret.value.duration = Some(1)
    /\ \E other \in DOMAIN call_sessions : call_sessions[other].agent_started

\* C5: end_call_tracking(id) on an id that is not in the registry, as is the
\* case directly after another end_call_tracking(id), returns None, raises
\* nothing and leaves the registry as it was.
C5_EndOfUnknownId ==
    [][\A id \in Ids :
          (/\ Called("end_call_tracking", id)'
           /\ end_call_tracking(id)
           /\ \/ id \notin DOMAIN call_sessions
              \/ (call.op = "end_call_tracking" /\ call.id = id)) =>
              /\ ret' = RetNone
              /\ call_sessions' = call_sessions]_vars

\* An end_call_tracking that found nothing, with the other call in the registry.
C5_Witness ==
    /\ call.op = "end_call_tracking"
    /\ ~call.found
    /\ ret = RetNone
    /\ log.level = "warning"
    /\ DOMAIN call_sessions = Ids \ {call.id}

-----------------------------------------------------------------------------
(* agent_start_time *)

\* C6: once mark_agent_started(id) has set a session's agent_start_time, a
\* later mark_agent_started(id) on the same session leaves it as it is.
C6_AgentStartTimeSetOnce ==
    [][\A id \in Ids :
          (/\ Called("mark_agent_started", id)'
           /\ mark_agent_started(id)
           /\ id \in DOMAIN call_sessions
           /\ call_sessions[id].agent_start_time # None) =>
              call_sessions'[id].agent_start_time =
                  call_sessions[id].agent_start_time]_vars

\* start_time <= agent_start_time <= end_time, for the ones that are set.
Ordered(session) ==
    /\ session.agent_start_time # None =>
           session.start_time <= Val(session.agent_start_time)
    /\ session.end_time # None =>
           session.start_time <= Val(session.end_time)
    /\ (session.agent_start_time # None /\ session.end_time # None) =>
           Val(session.agent_start_time) <= Val(session.end_time)

\* C7: with a clock that never goes back, every session in the registry and
\* every record end_call_tracking returns has start_time <= agent_start_time
\* when that is set, and agent_start_time <= end_time when both are set.
C7_TimestampsOrdered ==
    /\ \A id \in DOMAIN call_sessions : Ordered(call_sessions[id])
    /\ (call.op = "end_call_tracking" /\ ret.kind = "value") => Ordered(ret.value)

\* A returned record with three strictly increasing timestamps, while the
\* other call's agent started a tick after that call began.
C7_Witness ==
    /\ call.op = "end_call_tracking"
    /\ ret.kind = "value"
    /\ ret.value.agent_start_time # None
    /\ ret.value.start_time < Val(ret.value.agent_start_time)
    /\ Val(ret.value.agent_start_time) < Val(ret.value.end_time)
    /\ \E id \in DOMAIN call_sessions :
           /\ call_sessions[id].agent_start_time # None
           /\ call_sessions[id].start_time < Val(call_sessions[id].agent_start_time)

-----------------------------------------------------------------------------
(* Polling current_duration *)

\* C8 as stated: of two successful get_call_status(id) polls with no
\* end_call_tracking(id) between them, the later one's current_duration is
\* at least the earlier one's, whatever else is called in between.
C8_PollsNeverDecrease ==
    (call.op = "get_call_status" /\ ret.kind = "value" /\ call.prev_poll # None) =>
        ret.value.current_duration >= Val(call.prev_poll)

\* C8, amended: of two successful get_call_status(id) polls with neither an
\* end_call_tracking(id) nor a start_call_tracking(id) between them, the
\* later one's current_duration is at least the earlier one's.
C8_PollsOfOneSessionNeverDecrease ==
    (/\ call.op = "get_call_status"
     /\ ret.kind = "value"
     /\ call.prev_poll # None
     /\ ~call.restarted) =>
        ret.value.current_duration >= Val(call.prev_poll)

\* A second poll of one session, a tick and a mark_agent_started later.
C8_Witness ==
    /\ call.op = "get_call_status"
    /\ ret.kind = "value"
    /\ call.prev_poll = Some(0)
    /\ ~call.restarted
    /\ ret.value.agent_started
    /\ ret.value.current_duration = 1

-----------------------------------------------------------------------------
(* mark_agent_started before start_call_tracking; start_call_tracking *)

\* C9: mark_agent_started(id) on an id that is not in the registry returns
\* normally and leaves the registry as it was, and the session a later
\* start_call_tracking(id) creates has agent_started false and
\* agent_start_time unset.
C9_EarlyMarkHasNoEffect ==
    [][\A id \in Ids :
          /\ (/\ Called("mark_agent_started", id)'
              /\ mark_agent_started(id)
              /\ id \notin DOMAIN call_sessions) =>
                 /\ call_sessions' = call_sessions
                 /\ ret' = RetNone
          /\ \A d \in Dialed :
                 (/\ Called("start_call_tracking", id)'
                  /\ start_call_tracking(id, d[1], d[2])
                  /\ id \notin DOMAIN call_sessions
                  /\ id \in marked) =>
                     /\ id \in DOMAIN call_sessions'
                     /\ call_sessions'[id].agent_started = FALSE
                     /\ call_sessions'[id].agent_start_time = None
                     /\ call_sessions'[id].start_time = now]_vars

\* A session begun after a mark_agent_started that found no session.
C9_Witness ==
    /\ call.op = "start_call_tracking"
    /\ ~call.found
    /\ call.marked
    /\ call.id \in DOMAIN call_sessions
    /\ call_sessions[call.id].agent_started = FALSE

\* C10: start_call_tracking(id, to, from) returns normally and, whether id was
\* absent, begun or agent-started, leaves a session for id with the to_phone
\* and from_phone just passed, start_time the current time, agent_started
\* false and agent_start_time, end_time and duration unset.
C10_StartCreatesFreshSession ==
    [][\A id \in Ids, d \in Dialed :
          (Called("start_call_tracking", id)' /\ start_call_tracking(id, d[1], d[2])) =>
              /\ ret' = RetNone
              /\ id \in DOMAIN call_sessions'
              /\ call_sessions'[id].to_phone = d[1]
              /\ call_sessions'[id].from_phone = d[2]
              /\ call_sessions'[id].start_time = now
              /\ call_sessions'[id].agent_started = FALSE
              /\ call_sessions'[id].agent_start_time = None
              /\ call_sessions'[id].end_time = None
              /\ call_sessions'[id].duration = None]_vars

\* A call begun again, a tick later, over a session whose agent had started.
C10_Witness ==
    /\ call.op = "start_call_tracking"
    /\ call.found
    /\ call.agent
    /\ call_sessions[call.id].start_time = 2
    /\ call_sessions[call.id].agent_started = FALSE
    /\ call_sessions[call.id].agent_start_time = None

-----------------------------------------------------------------------------
(* get_call_status *)

\* C11: get_call_status(id) returns None exactly when id is not in the
\* registry, that is never begun or ended since its last begin; for an id in
\* the registry it returns a view with current_duration equal to the current
\* time minus the start_time its start_call_tracking captured.
C11_StatusOfRegisteredIds ==
    [][\A id \in Ids :
          (Called("get_call_status", id)' /\ get_call_status(id)) =>
              /\ (ret' = RetNone) <=> (id \notin DOMAIN call_sessions)
              /\ (id \notin DOMAIN call_sessions) <=> (id \notin begun)
              /\ id \in begun =>
                     /\ ret'.kind = "value"
                     /\ "current_duration" \in DOMAIN ret'.value
                     /\ ret'.value.current_duration = now - Val(started_at[id])
                     /\ ret'.value.start_time = Val(started_at[id])]_vars

\* A poll two ticks after the start of a call whose agent has started.
C11_Witness ==
    /\ call.op = "get_call_status"
    /\ call.found
    /\ ret.kind = "value"
    /\ ret.value.agent_started
    /\ ret.value.current_duration = 2
    /\ now = ret.value.start_time + 2

-----------------------------------------------------------------------------
(* The queries and the registry *)

\* C12: get_call_status and get_active_calls leave the registry as it was, no
\* record of the registry ever holds a current_duration, and a caller's write
\* to a field of a view it was handed leaves the registry as it was.
C12_QueriesLeaveRegistry ==
    [][/\ \A id \in Ids :
              (Called("get_call_status", id)' /\ get_call_status(id)) =>
                  call_sessions' = call_sessions
       /\ (call'.op = "get_active_calls" /\ get_active_calls) =>
              call_sessions' = call_sessions
       /\ \A id \in Ids :
              (/\ Called("write_view", id)'
               /\ write_status_view(id) \/ write_active_view(id)) =>
                  call_sessions' = call_sessions
       /\ \A id \in DOMAIN call_sessions' :
              "current_duration" \notin DOMAIN call_sessions'[id]]_vars

\* A caller has written to_phone of a view of a session that is in the
\* registry, and the session's to_phone is not what the caller wrote.
C12_Witness ==
    /\ call.op = "write_view"
    /\ call.found
    /\ call.agent
    /\ call.id \in DOMAIN call_sessions
    /\ call_sessions[call.id].to_phone # Redacted
    /\ call_sessions[call.id].agent_started

-----------------------------------------------------------------------------
(* The summary line of end_call_tracking *)

\* C13: the summary line of a successful end_call_tracking(id) carries the
\* "agent never started" marker exactly when mark_agent_started(id) was not
\* called on the session since its start_call_tracking, and carries the agent
\* duration exactly when it was, also when the clock at the end equals the
\* clock recorded at mark_agent_started.
C13_SummaryTail ==
    [][\A id \in Ids :
          (/\ Called("end_call_tracking", id)'
           /\ end_call_tracking(id)
           /\ id \in begun) =>
              /\ log'.event = "CALL ENDED"
              /\ (log'.tail.text = "AGENT NEVER STARTED") <=> (id \notin marked)
              /\ (log'.tail.text = "AGENT DURATION") <=> (id \in marked)
              /\ id \in marked =>
                     log'.tail.seconds =
                         Val(ret'.value.end_time) - Val(ret'.value.agent_start_time)]_vars

-----------------------------------------------------------------------------
(* The final snapshot is handed out once *)

\* C14: whatever the interleaving of the handlers' calls, each of which runs
\* to completion, an end_call_tracking(id) returns a record exactly when
\* start_call_tracking(id) has been called and no end_call_tracking(id) since,
\* and returns None otherwise; so between one start_call_tracking(id) and the
\* next at most one end_call_tracking(id) returns a record.
C14_SnapshotHandedOutOnce ==
    [][\A id \in Ids :
          (Called("end_call_tracking", id)' /\ end_call_tracking(id)) =>
              /\ (ret'.kind = "value") <=> (id \in begun)
              /\ (ret' = RetNone) <=> (id \notin begun)
              /\ id \notin begun'
              /\ id \notin DOMAIN call_sessions']_vars

\* A second end_call_tracking(id), directly after the one that returned the
\* record, returns None while the other handler's call is live.
C14_Witness ==
    /\ call.op = "end_call_tracking"
    /\ call.again
    /\ ~call.found
    /\ ret = RetNone
    /\ DOMAIN call_sessions = Ids \ {call.id}

-----------------------------------------------------------------------------
(* No ended session is in the registry *)

\* C15: in every state, every record of the registry has end_time,
\* end_datetime and duration unset; they are set on the record that
\* end_call_tracking returns; so every view get_call_status or
\* get_active_calls returns is of a session that has not ended, carries a
\* current_duration, and get_active_calls leaves out no session of the registry.
C15_RegistryHoldsNoEndedSession ==
    /\ \A id \in DOMAIN call_sessions :
           /\ call_sessions[id].end_time = None
           /\ call_sessions[id].end_datetime = None
           /\ call_sessions[id].duration = None
    /\ (call.op = "end_call_tracking" /\ ret.kind = "value") =>
           /\ ret.value.end_time # None
           /\ ret.value.end_datetime # None
           /\ ret.value.duration # None
    /\ (call.op = "get_call_status" /\ ret.kind = "value") =>
           /\ ret.value.end_time = None
           /\ "current_duration" \in DOMAIN ret.value
    /\ call.op = "get_active_calls" =>
           /\ DOMAIN ret.value = DOMAIN call_sessions
           /\ \A id \in DOMAIN ret.value :
                  /\ ret.value[id].end_time = None
                  /\ "current_duration" \in DOMAIN ret.value[id]

\* get_active_calls() lists the one live session, two ticks after its start,
\* and not the other id, for which mark_agent_started found no session.
C15_Witness ==
    /\ call.op = "get_active_calls"
    /\ Cardinality(DOMAIN ret.value) = 1
    /\ \E id \in DOMAIN ret.value :
           /\ ret.value[id].current_duration = 2
           /\ ret.value[id].agent_started
    /\ Cardinality(begun) = 1
    /\ \E id \in Ids : id \in marked /\ id \notin begun

-----------------------------------------------------------------------------
(* Sessions of different ids *)

\* The step leaves the session of id as it was: in or out of the registry,
\* with the same record.
SessionUntouched(id) ==
    /\ (id \in DOMAIN call_sessions') <=> (id \in DOMAIN call_sessions)
    /\ id \in DOMAIN call_sessions => call_sessions'[id] = call_sessions[id]

\* C16: under every interleaving of the handlers' calls, a
\* start_call_tracking, mark_agent_started or end_call_tracking on one id
\* adds, removes or changes the session of no other id.
C16_SessionsIsolated ==
    [][\A a \in Ids :
          (\/ /\ Called("start_call_tracking", a)'
              /\ \E d \in Dialed : start_call_tracking(a, d[1], d[2])
           \/ /\ Called("mark_agent_started", a)'
              /\ mark_agent_started(a)
           \/ /\ Called("end_call_tracking", a)'
              /\ end_call_tracking(a)) =>
              \A b \in Ids \ {a} : SessionUntouched(b)]_vars

\* A call is begun again over its agent-started session while the other id's
\* session, begun earlier with the other phone pair, has its agent started.
C16_Witness ==
    /\ call.op = "start_call_tracking"
    /\ call.found
    /\ call.agent
    /\ \E b \in DOMAIN call_sessions \ {call.id} :
           /\ call_sessions[b].agent_started
           /\ call_sessions[b].start_time < call_sessions[call.id].start_time
           /\ call_sessions[b].to_phone # call_sessions[call.id].to_phone

-----------------------------------------------------------------------------
(* What mark_agent_started leaves alone *)

\* C17: mark_agent_started(id) on a session of the registry sets its
\* agent_started to true and its agent_start_time to the current time and
\* changes no other field: to_phone, from_phone, start_time and
\* start_datetime stay as start_call_tracking set them, and the record a
\* later end_call_tracking(id) returns carries those to_phone, from_phone and
\* start_time.
C17_MarkChangesAgentFieldsOnly ==
    [][\A id \in Ids :
          /\ (/\ Called("mark_agent_started", id)'
              /\ mark_agent_started(id)
              /\ id \in DOMAIN call_sessions) =>
                 /\ id \in DOMAIN call_sessions'
                 /\ DOMAIN call_sessions'[id] = DOMAIN call_sessions[id]
                 /\ call_sessions'[id].agent_started = TRUE
                 /\ call_sessions'[id].agent_start_time = Some(now)
                 /\ \A f \in DOMAIN call_sessions[id] \
                               {"agent_started", "agent_start_time"} :
                        call_sessions'[id][f] = call_sessions[id][f]
                 /\ call_sessions'[id].to_phone = dialed[id][1]
                 /\ call_sessions'[id].from_phone = dialed[id][2]
                 /\ call_sessions'[id].start_time = Val(started_at[id])
                 /\ call_sessions'[id].start_datetime = Val(started_at[id])
          /\ (/\ Called("end_call_tracking", id)'
              /\ end_call_tracking(id)
              /\ id \in begun
              /\ id \in marked) =>
                 /\ ret'.kind = "value"
                 /\ ret'.value.to_phone = dialed[id][1]
                 /\ ret'.value.from_phone = dialed[id][2]
                 /\ ret'.value.start_time = Val(started_at[id])]_vars

\* A call to "+1777", begun at clock 1, marked at clock 3 and ended then.
C17_Witness ==
    /\ call.op = "end_call_tracking"
    /\ call.found
    /\ call.marked
    /\ ret.kind = "value"
    /\ ret.value.to_phone = "+1777"
    /\ ret.value.from_phone = "+1555"
    /\ ret.value.start_time = 1
    /\ ret.value.agent_start_time = Some(3)
    /\ ret.value.end_time = Some(3)

=============================================================================
